---- MODULE Spec2Model ----
(***************************************************************************)
(* A model of the two Streamlit scripts of option-payoffs-app:             *)
(*   src/option-payoffs-app.py  ("option-payoffs-app")                     *)
(*   src/options-EN.py          ("options-EN")                             *)
(*                                                                         *)
(* A session serves one script.  The user navigates to a page or moves one *)
(* widget of the page shown; every such interaction makes the script run   *)
(* again from its first line to its last with the widgets' values.         *)
(*                                                                         *)
(* Units.  np.linspace(lo, hi, 100) yields lo + i*(hi-lo)/99, so every     *)
(* amount of option-payoffs-app is held as an integer number of 1/99       *)
(* dollars (Den = 99).  options-EN uses np.arange grids of whole dollars   *)
(* and its amounts are held in dollars.  Rates are held in 1/10000 (basis  *)
(* points), volatilities in 1/100, times to expiry in 1/9900 year (the     *)
(* common unit of the 0.1 and 0.01 steps and of days/365 over the 100      *)
(* point grid of days).                                                    *)
(***************************************************************************)
EXTENDS Integers, Sequences, FiniteSets, TLC

VARIABLES
    script,   \* the script this session serves
    widgets,  \* the values of the widgets of the page shown
    before,   \* history: the names the session had bound when the last run began
    ns,       \* the names bound at module level by the last run
    out       \* what the last run computed and displayed

vars == <<script, widgets, before, ns, out>>

----------------------------------------------------------------------------
(* Bounds of the model *)

\* A slider is sampled at its minimum, its maximum and the values within
\* Near of its default.
Near == 0

\* Search terms typed in the glossary are the strings of at most MaxTermLen
\* characters over TermAlphabet.
MaxTermLen == 3

----------------------------------------------------------------------------
(* Numbers *)

\* num of np.linspace(.., .., 100): the number of grid points
GridN == 100

\* One dollar in the unit of the linspace grids.
Den == GridN - 1

\* One year in the unit of times to expiry.
TUnit == 100 * Den

Dollars(x) == x * Den

Abs(x) == IF x >= 0 THEN x ELSE -x

\* np.maximum / np.minimum / max / min of two numbers
maximum(a, b) == IF a >= b THEN a ELSE b

minimum(a, b) == IF a <= b THEN a ELSE b

\* np.linspace(lo, hi, n), in units of 1/(n-1)
linspace(lo, hi, n) == [i \in 1..n |-> lo * (n - 1) + (i - 1) * (hi - lo)]

\* np.arange(lo, hi, 1)
arange(lo, hi) == [i \in 1..(hi - lo) |-> lo + (i - 1)]

\* ndarray.astype(int) of a boolean
astype_int(b) == IF b THEN 1 ELSE 0

\* the values a slider(lo, hi, default) is sampled at
Sample(lo, hi, d) == {lo, hi} \cup {v \in lo..hi : Abs(v - d) <= Near}

----------------------------------------------------------------------------
(* option-payoffs-app: the payoff kernel (S an array, K a number) *)

\* call_payoff, and before it the variant without the floor at zero
call_payoff_neg(S, K) == [i \in DOMAIN S |-> S[i] - K]

call_payoff(S, K) == [i \in DOMAIN S |-> maximum(S[i] - K, 0)]

\* put_payoff, and before it the variant with S and K exchanged
put_payoff_swapped(S, K) == [i \in DOMAIN S |-> maximum(S[i] - K, 0)]

put_payoff(S, K) == [i \in DOMAIN S |-> maximum(K - S[i], 0)]

\* binary_call_payoff (S > K), and before it the variant paying at S == K
binary_call_payoff_ge(S, K) == [i \in DOMAIN S |-> astype_int(S[i] >= K)]

binary_call_payoff(S, K) == [i \in DOMAIN S |-> astype_int(S[i] > K)]

binary_put_payoff(S, K) == [i \in DOMAIN S |-> astype_int(S[i] < K)]

\* array arithmetic: a + b, a - b, c * a, a - c, -a
\* (before Add, the variant that subtracts)
Add_minus(a, b) == [i \in DOMAIN a |-> a[i] - b[i]]

Add(a, b) == [i \in DOMAIN a |-> a[i] + b[i]]

Sub(a, b) == [i \in DOMAIN a |-> a[i] - b[i]]

\* (before Times, the variant that drops the factor)
Times_once(c, a) == a

Times(c, a) == [i \in DOMAIN a |-> c * a[i]]

\* (before Minus, the variant that adds)
Minus_plus(a, c) == [i \in DOMAIN a |-> a[i] + c]

Minus(a, c) == [i \in DOMAIN a |-> a[i] - c]

\* (before Neg, the variant that keeps the sign)
Neg_keep(a) == a

Neg(a) == [i \in DOMAIN a |-> -a[i]]

----------------------------------------------------------------------------
(* Names and exceptions *)

\* the module-level names a run starts with: the script's imports
Imports(s) ==
    IF s = "option-payoffs-app"
    THEN {"st", "np", "plt", "pd", "exp"}
    ELSE {"st", "np", "pd", "plt", "datetime"}

\* A run starts from the script's first line with the names its imports
\* bind; prev holds the names the previous run of the session had bound.
\* (Before StartNamespace, the variant of a session that kept those names.)
StartNamespace_kept(s, prev) == Imports(s) \cup prev

StartNamespace(s, prev) == Imports(s)

\* the functions the script defines before it dispatches on the page
Defs(s) ==
    IF s = "option-payoffs-app"
    THEN {"call_payoff", "put_payoff", "binary_call_payoff", "binary_put_payoff"}
    ELSE {}

\* One Black-Scholes evaluation, as the d1 line reads its operands:
\*   d1 = 1/(vol*np.sqrt(T)) * (np.log(S/K) + (r + vol**2/2)*T)
\* S and K are arrays (a number is an array of one element).
d1(S, K, r, vol, T) == [S |-> S, K |-> K, r |-> r, vol |-> vol, T |-> T]

\* A page's result: what it shows, the d1 evaluations it made in order,
\* the error that ended it ("none" when it ran to its end) and the names it
\* bound at module level.
Page(shown, evals, error, binds) ==
    [shown |-> shown, evals |-> evals, error |-> error, binds |-> binds]

\* The statements of a page that read or bind module-level names, in the
\* order the page executes them.
D1(S, K, r, vol, T) == [op |-> "d1", e |-> d1(S, K, r, vol, T)]

Import(name) == [op |-> "import", name |-> name]

Use(name) == [op |-> "use", name |-> name]

\* Executes stmts with the names of env bound.  An import binds its name
\* for the statements after it; the first use of a name that is not bound
\* raises NameError, which ends the run of the page: the statements before
\* it have taken effect, those after it are not executed.
Exec(stmts, env) ==
    LET imports == {j \in DOMAIN stmts : stmts[j].op = "import"}
        bound(i) == env \cup {stmts[j].name : j \in {k \in imports : k < i}}
        raises == {i \in DOMAIN stmts :
                      stmts[i].op = "use" /\ stmts[i].name \notin bound(i)}
        stop == IF raises = {} THEN Len(stmts) + 1
                ELSE CHOOSE i \in raises : \A j \in raises : i <= j
        done == SubSeq(stmts, 1, stop - 1)
        IsD1(st) == st.op = "d1"
        evaluated == SelectSeq(done, IsD1)
    IN  [evals |-> [k \in DOMAIN evaluated |-> evaluated[k].e],
         error |-> IF raises = {} THEN "none" ELSE "NameError",
         binds |-> {stmts[j].name : j \in {k \in imports : k < stop}}]

\* the concatenation of the sequences of a sequence
RECURSIVE Flatten(_)
Flatten(ss) ==
    IF Len(ss) = 0 THEN <<>>
    ELSE IF Len(ss) = 1 THEN ss[1]
    ELSE LET h == Len(ss) \div 2
         IN  Flatten(SubSeq(ss, 1, h)) \o Flatten(SubSeq(ss, h + 1, Len(ss)))

----------------------------------------------------------------------------
(* option-payoffs-app: Basic Options *)

\* the in-the-money / out-of-the-money status of the value summary
\* (before status, the variant that takes S0 == K for in-the-money)
status_ge(option_type, S0, K) ==
    IF option_type \in {"Call", "Binary Call"}
    THEN IF S0 >= K THEN "In-the-money" ELSE "Out-of-the-money"
    ELSE IF S0 <= K THEN "In-the-money" ELSE "Out-of-the-money"

status(option_type, S0, K) ==
    IF option_type \in {"Call", "Binary Call"}
    THEN IF S0 > K THEN "In-the-money"
         ELSE IF S0 < K THEN "Out-of-the-money"
         ELSE "At-the-money"
    ELSE IF S0 < K THEN "In-the-money"
         ELSE IF S0 > K THEN "Out-of-the-money"
         ELSE "At-the-money"

BasicOptions(w) ==
    LET S0 == w.S0
        K == w.K
        premium == w.premium
        option_type == w.option_type
        S_range == linspace(50, 150, GridN)
        \* a binary option pays 1 dollar: Den in the unit of the arrays
        payoff ==
            IF option_type = "Call" THEN call_payoff(S_range, Dollars(K))
            ELSE IF option_type = "Put" THEN put_payoff(S_range, Dollars(K))
            ELSE IF option_type = "Binary Call"
                 THEN Times(Den, binary_call_payoff(S_range, Dollars(K)))
            ELSE Times(Den, binary_put_payoff(S_range, Dollars(K)))
        profit == Minus(payoff, Dollars(premium))
        formula ==
            IF option_type = "Call" THEN "Call Payoff = max(S - K, 0)"
            ELSE IF option_type = "Put" THEN "Put Payoff = max(K - S, 0)"
            ELSE IF option_type = "Binary Call"
                 THEN "Binary Call Payoff = 1 if S > K, 0 otherwise"
            ELSE "Binary Put Payoff = 1 if S < K, 0 otherwise"
        \* the breakeven line, drawn only inside the plotted range
        breakeven ==
            IF option_type = "Call" /\ K + premium <= 150 THEN <<K + premium>>
            ELSE IF option_type = "Put" /\ K - premium >= 50 THEN <<K - premium>>
            ELSE <<>>
        current_intrinsic ==
            IF option_type = "Call" THEN maximum(S0 - K, 0)
            ELSE IF option_type = "Put" THEN maximum(K - S0, 0)
            ELSE IF option_type = "Binary Call" THEN (IF S0 > K THEN 1 ELSE 0)
            ELSE (IF S0 < K THEN 1 ELSE 0)
        time_value == maximum(0, premium - current_intrinsic)
    IN  Page([S_range |-> S_range, payoff |-> payoff, profit |-> profit,
              formula |-> formula, breakeven |-> breakeven,
              current_intrinsic |-> current_intrinsic,
              time_value |-> time_value, premium |-> premium,
              status |-> status(option_type, S0, K)],
             <<>>, "none", {})

----------------------------------------------------------------------------
(* option-payoffs-app: Option Strategies *)

\* butterfly_payoff = call1 + call2 + call3, of the prices S
butterfly_payoff(S, K1, K2, K3) ==
    LET call1 == call_payoff(S, K1)
        call2 == Times(-2, call_payoff(S, K2))
        call3 == call_payoff(S, K3)
    IN  Add(Add(call1, call2), call3)

OptionStrategies(w) ==
    LET strategy == w.strategy
        S_range == linspace(50, 150, GridN)
        shown ==
            IF strategy = "Bull Spread" THEN
                LET long_call == call_payoff(S_range, Dollars(w.K1))
                    short_call == Neg(call_payoff(S_range, Dollars(w.K2)))
                IN  [S_range |-> S_range, long_call |-> long_call,
                     short_call |-> short_call,
                     payoff |-> Add(long_call, short_call),
                     max_profit |-> w.K2 - w.K1]
            ELSE IF strategy = "Bear Spread" THEN
                LET long_put == put_payoff(S_range, Dollars(w.K2))
                    short_put == Neg(put_payoff(S_range, Dollars(w.K1)))
                IN  [S_range |-> S_range, long_put |-> long_put,
                     short_put |-> short_put,
                     payoff |-> Add(long_put, short_put),
                     max_profit |-> w.K2 - w.K1]
            ELSE IF strategy = "Straddle" THEN
                LET call == call_payoff(S_range, Dollars(w.K))
                    put == put_payoff(S_range, Dollars(w.K))
                IN  [S_range |-> S_range, call |-> call, put |-> put,
                     payoff |-> Add(call, put)]
            ELSE IF strategy = "Strangle" THEN
                LET call == call_payoff(S_range, Dollars(w.K2))
                    put == put_payoff(S_range, Dollars(w.K1))
                IN  [S_range |-> S_range, call |-> call, put |-> put,
                     payoff |-> Add(call, put)]
            ELSE IF strategy = "Butterfly Spread" THEN
                LET call1 == call_payoff(S_range, Dollars(w.K1))
                    call2 == Times(-2, call_payoff(S_range, Dollars(w.K2)))
                    call3 == call_payoff(S_range, Dollars(w.K3))
                IN  [S_range |-> S_range, call1 |-> call1, call2 |-> call2,
                     call3 |-> call3,
                     payoff |-> butterfly_payoff(S_range, Dollars(w.K1),
                                                 Dollars(w.K2), Dollars(w.K3)),
                     max_profit |-> w.K2 - w.K1]
            ELSE \* Risk Reversal
                LET short_put == Neg(put_payoff(S_range, Dollars(w.K1)))
                    long_call == call_payoff(S_range, Dollars(w.K2))
                IN  [S_range |-> S_range, short_put |-> short_put,
                     long_call |-> long_call,
                     payoff |-> Add(short_put, long_call)]
    IN  Page(shown, <<>>, "none", {})

----------------------------------------------------------------------------
(* option-payoffs-app: Put-Call Parity *)

\* vol = 0.2, the assumed volatility of the page, in 1/100
PutCallParity_vol == 20

\* T of the page's slider (tenths of a year), in the unit of times
\* (before SliderT, the variant of a slider starting one step lower, at 0.0)
SliderT_from0(tenths) == (tenths - 1) * (TUnit \div 10)

SliderT(tenths) == tenths * (TUnit \div 10)

PutCallParity(w, env) ==
    LET S0 == w.S0
        K == w.K
        r == w.r
        T == SliderT(w.T)
        vol == PutCallParity_vol
        S_range == linspace(50, 150, GridN)
        call_payoff_values == call_payoff(S_range, Dollars(K))
        put_payoff_values == put_payoff(S_range, Dollars(K))
        stock_minus_bond == Minus(S_range, Dollars(K))
        run == Exec(<<D1(<<Dollars(S0)>>, <<Dollars(K)>>, r, vol, T),
                      Import("norm"), Use("norm")>>, env)
    IN  Page([S_range |-> S_range,
              call_payoff_values |-> call_payoff_values,
              put_payoff_values |-> put_payoff_values,
              call_minus_put |-> Sub(call_payoff_values, put_payoff_values),
              stock_minus_bond |-> stock_minus_bond],
             run.evals, run.error, run.binds)

----------------------------------------------------------------------------
(* option-payoffs-app: Factors Affecting Price *)

\* r = 0.05, vol = 0.2, T = 1.0, K = 100, S0 = 100 of the factor pages
Factor_r == 500

Factor_vol == 20

Factor_T == TUnit

Factor_K == 100

Factor_S0 == 100

\* T_values = [2.0, 1.0, 0.5, 0.25, 0.1, 0.01]
T_values ==
    <<2 * TUnit, TUnit, TUnit \div 2, TUnit \div 4, TUnit \div 10, TUnit \div 100>>

\* vol_values = [0.1, 0.2, 0.3, 0.4, 0.5]
vol_values == <<10, 20, 30, 40, 50>>

\* r_values = [0.01, 0.03, 0.05, 0.07, 0.10]
r_values == <<100, 300, 500, 700, 1000>>

\* K_values = [80, 90, 100, 110, 120]
\* (before K_values, the variant of a list that starts at a strike of 0)
K_values_from0 == <<0, 90, 100, 110, 120>>

K_values == <<80, 90, 100, 110, 120>>

\* days = np.linspace(365, 0, 100), in 1/99 day
days == linspace(365, 0, GridN)

\* years = days/365, in the unit of times
years == [i \in DOMAIN days |-> (days[i] * (TUnit \div Den)) \div 365]

\* One iteration of the time decay loop: at expiry (T == 0) the intrinsic
\* values are taken, otherwise the at-, out-of- and in-the-money calls are
\* priced (S0, S0*0.9, S0*1.1).
TimeDecayStep(T) ==
    IF T = 0 THEN <<>>
    ELSE LET S0 == Dollars(Factor_S0)
             K == <<Dollars(Factor_K)>>
         IN  <<D1(<<S0>>, K, Factor_r, Factor_vol, T), Use("norm"),
               D1(<<(S0 * 9) \div 10>>, K, Factor_r, Factor_vol, T), Use("norm"),
               D1(<<(S0 * 11) \div 10>>, K, Factor_r, Factor_vol, T), Use("norm")>>

\* the statements of each factor's branch
FactorStatements(factor) ==
    LET S_range == linspace(70, 130, GridN)
        K == <<Dollars(Factor_K)>>
    IN  IF factor = "Underlying Asset Price" THEN
            <<D1(S_range, K, Factor_r, Factor_vol, Factor_T),
              Import("norm"), Use("norm")>>
        ELSE IF factor = "Time to Expiry" THEN
            Flatten([k \in DOMAIN T_values |->
                        <<D1(S_range, K, Factor_r, Factor_vol, T_values[k]),
                          Use("norm")>>])
            \o Flatten([i \in DOMAIN years |-> TimeDecayStep(years[i])])
        ELSE IF factor = "Volatility" THEN
            Flatten([k \in DOMAIN vol_values |->
                        <<D1(S_range, K, Factor_r, vol_values[k], Factor_T),
                          Use("norm")>>])
        ELSE IF factor = "Interest Rate" THEN
            Flatten([k \in DOMAIN r_values |->
                        <<D1(S_range, K, r_values[k], Factor_vol, Factor_T),
                          Use("norm")>>])
        ELSE \* Strike Price
            Flatten([k \in DOMAIN K_values |->
                        <<D1(S_range, <<Dollars(K_values[k])>>, Factor_r,
                             Factor_vol, Factor_T),
                          Use("norm")>>])
            \o <<D1(<<Dollars(Factor_S0)>>, linspace(70, 130, GridN), Factor_r,
                    Factor_vol, Factor_T),
                 Use("norm")>>

\* the synthetic volatility smile of the Volatility factor, in 1/64000:
\* strikes = np.linspace(80, 120, 9); atm_vol + 0.001 * (k-K)**2
implied_vols ==
    LET strikes == linspace(80, 120, 9)
    IN  [i \in DOMAIN strikes |->
            12800 + (strikes[i] - 8 * Factor_K) * (strikes[i] - 8 * Factor_K)]

FactorsAffectingPrice(w, env) ==
    LET factor == w.factor
        S_range == linspace(70, 130, GridN)
        run == Exec(FactorStatements(factor), env)
        shown ==
            IF run.error # "none" THEN [factor |-> factor]
            ELSE IF factor = "Time to Expiry"
                 THEN [factor |-> factor,
                       payoff |-> [i \in DOMAIN S_range |->
                                      maximum(S_range[i] - Dollars(Factor_K), 0)]]
            ELSE IF factor = "Volatility"
                 THEN [factor |-> factor,
                       payoff |-> [i \in DOMAIN S_range |->
                                      maximum(S_range[i] - Dollars(Factor_K), 0)],
                       implied_vols |-> implied_vols]
            ELSE [factor |-> factor]
    IN  Page(shown, run.evals, run.error, run.binds)

----------------------------------------------------------------------------
(* options-EN: Option Payoffs *)

OptionPayoffsEN(w) ==
    LET option_type == w.option_type
        position == w.position
        strike_price == w.strike_price
        premium == w.premium
        stock_prices == arange(40, 160)
        long_call == [i \in DOMAIN stock_prices |->
                         maximum(stock_prices[i] - strike_price, 0)]
        long_put == [i \in DOMAIN stock_prices |->
                        maximum(strike_price - stock_prices[i], 0)]
        payoffs ==
            IF option_type = "Call"
            THEN IF position = "Long" THEN long_call
                 ELSE [i \in DOMAIN stock_prices |->
                          minimum(strike_price - stock_prices[i], 0)]
            ELSE IF position = "Long" THEN long_put
                 ELSE [i \in DOMAIN stock_prices |-> -long_put[i] + premium]
        profits ==
            IF option_type = "Call"
            THEN IF position = "Long" THEN Minus(payoffs, premium)
                 ELSE [i \in DOMAIN stock_prices |-> -long_call[i] + premium]
            ELSE IF position = "Long" THEN Minus(payoffs, premium)
                 ELSE [i \in DOMAIN stock_prices |-> -long_put[i] + premium]
        title ==
            IF option_type = "Call"
            THEN IF position = "Long" THEN "Long Call Option"
                 ELSE "Short Call Option"
            ELSE IF position = "Long" THEN "Long Put Option"
                 ELSE "Short Put Option"
    IN  Page([stock_prices |-> stock_prices, payoffs |-> payoffs,
              profits |-> profits, title |-> title],
             <<>>, "none", {})

----------------------------------------------------------------------------
(* options-EN: Put-Call Parity *)

\* time_to_expiry of the page's slider (tenths of a year, from 0.0), in the
\* unit of times
\* (before time_to_expiry, the variant of a slider starting one step lower)
time_to_expiry_below0(tenths) == (tenths - 1) * (TUnit \div 10)

time_to_expiry(tenths) == tenths * (TUnit \div 10)

\* The page discounts the strike, strike_price * np.exp(-interest_rate *
\* time_to_expiry), and derives the other option's price from the one the
\* user gave; the exponential is not evaluated here, its operands are kept.
PutCallParityEN(w) ==
    Page([asset_price |-> w.asset_price,
          discount |-> [strike_price |-> w.strike_price,
                        interest_rate |-> w.interest_rate,
                        time_to_expiry |-> time_to_expiry(w.time_to_expiry)],
          option_choice |-> w.option_choice,
          given_price |-> w.option_price],
         <<>>, "none", {})

----------------------------------------------------------------------------
(* options-EN: Option Strategies (estimated premiums in cents) *)

OptionStrategiesEN(w) ==
    LET strategy == w.strategy
        stock_price == w.stock_price
        stock_prices == arange(50, 150)
        Call(K) == [i \in DOMAIN stock_prices |-> maximum(stock_prices[i] - K, 0)]
        Put(K) == [i \in DOMAIN stock_prices |-> maximum(K - stock_prices[i], 0)]
        shown ==
            IF strategy = "Bull Spread" THEN
                LET long_call_payoff == Call(w.lower_strike)
                    short_call_payoff == Neg(Call(w.upper_strike))
                IN  [stock_prices |-> stock_prices,
                     payoffs |-> Add(long_call_payoff, short_call_payoff),
                     max_profit |-> w.upper_strike - w.lower_strike,
                     max_loss |-> -(w.upper_strike - w.lower_strike) * 30]
            ELSE IF strategy = "Bear Spread" THEN
                LET long_put_payoff == Put(w.upper_strike)
                    short_put_payoff == Neg(Put(w.lower_strike))
                IN  [stock_prices |-> stock_prices,
                     payoffs |-> Add(long_put_payoff, short_put_payoff),
                     max_profit |-> w.upper_strike - w.lower_strike,
                     max_loss |-> -(w.upper_strike - w.lower_strike) * 30]
            ELSE IF strategy = "Straddle" THEN
                LET call_payoff_ == Call(w.center_strike)
                    put_payoff_ == Put(w.center_strike)
                IN  [stock_prices |-> stock_prices,
                     payoffs |-> Add(call_payoff_, put_payoff_),
                     max_profit |-> "Unlimited",
                     max_loss |-> w.center_strike * 15]
            ELSE IF strategy = "Strangle" THEN
                LET call_payoff_ == Call(w.call_strike)
                    put_payoff_ == Put(w.put_strike)
                IN  [stock_prices |-> stock_prices,
                     payoffs |-> Add(call_payoff_, put_payoff_),
                     max_profit |-> "Unlimited",
                     max_loss |-> stock_price * 12]
            ELSE IF strategy = "Butterfly Spread" THEN
                LET wing_width == 10
                    lower_strike == w.center_strike - wing_width
                    upper_strike == w.center_strike + wing_width
                    lower_call_payoff == Call(lower_strike)
                    middle_call_payoff == Times(-2, Call(w.center_strike))
                    upper_call_payoff == Call(upper_strike)
                IN  [stock_prices |-> stock_prices,
                     payoffs |-> Add(Add(lower_call_payoff, middle_call_payoff),
                                     upper_call_payoff),
                     max_profit |-> wing_width,
                     max_loss |-> wing_width * 20]
            ELSE \* Risk Reversal
                LET call_payoff_ == Call(w.upper_strike)
                    put_payoff_ == Neg(Put(w.lower_strike))
                IN  [stock_prices |-> stock_prices,
                     payoffs |-> Add(call_payoff_, put_payoff_),
                     max_profit |-> "Unlimited",
                     max_loss |-> "Potentially significant"]
    IN  Page(shown, <<>>, "none", {})

----------------------------------------------------------------------------
(* options-EN: Glossary.  A text is the sequence of its characters. *)

glossary == <<
    \* Call Option
    <<<<"C", "a", "l", "l", " ", "O", "p", "t", "i", "o", "n">>,
      <<"A", " ", "c", "o", "n", "t", "r", "a", "c", "t", " ", "g", "i", "v",
        "i", "n", "g", " ", "t", "h", "e", " ", "h", "o", "l", "d", "e", "r",
        " ", "t", "h", "e", " ", "r", "i", "g", "h", "t", ",", " ", "b", "u",
        "t", " ", "n", "o", "t", " ", "t", "h", "e", " ", "o", "b", "l", "i",
        "g", "a", "t", "i", "o", "n", ",", " ", "t", "o", " ", "b", "u", "y",
        " ", "a", "n", " ", "u", "n", "d", "e", "r", "l", "y", "i", "n", "g",
        " ", "a", "s", "s", "e", "t", " ", "a", "t", " ", "a", " ", "s", "p",
        "e", "c", "i", "f", "i", "e", "d", " ", "p", "r", "i", "c", "e", " ",
        "w", "i", "t", "h", "i", "n", " ", "a", " ", "s", "p", "e", "c", "i",
        "f", "i", "c", " ", "t", "i", "m", "e", " ", "p", "e", "r", "i", "o",
        "d", ".">>>>,
    \* Put Option
    <<<<"P", "u", "t", " ", "O", "p", "t", "i", "o", "n">>,
      <<"A", " ", "c", "o", "n", "t", "r", "a", "c", "t", " ", "g", "i", "v",
        "i", "n", "g", " ", "t", "h", "e", " ", "h", "o", "l", "d", "e", "r",
        " ", "t", "h", "e", " ", "r", "i", "g", "h", "t", ",", " ", "b", "u",
        "t", " ", "n", "o", "t", " ", "t", "h", "e", " ", "o", "b", "l", "i",
        "g", "a", "t", "i", "o", "n", ",", " ", "t", "o", " ", "s", "e", "l",
        "l", " ", "a", "n", " ", "u", "n", "d", "e", "r", "l", "y", "i", "n",
        "g", " ", "a", "s", "s", "e", "t", " ", "a", "t", " ", "a", " ", "s",
        "p", "e", "c", "i", "f", "i", "e", "d", " ", "p", "r", "i", "c", "e",
        " ", "w", "i", "t", "h", "i", "n", " ", "a", " ", "s", "p", "e", "c",
        "i", "f", "i", "c", " ", "t", "i", "m", "e", " ", "p", "e", "r", "i",
        "o", "d", ".">>>>,
    \* Strike Price
    <<<<"S", "t", "r", "i", "k", "e", " ", "P", "r", "i", "c", "e">>,
      <<"T", "h", "e", " ", "p", "r", "i", "c", "e", " ", "a", "t", " ", "w",
        "h", "i", "c", "h", " ", "t", "h", "e", " ", "h", "o", "l", "d", "e",
        "r", " ", "c", "a", "n", " ", "b", "u", "y", " ", "(", "f", "o", "r",
        " ", "c", "a", "l", "l", "s", ")", " ", "o", "r", " ", "s", "e", "l",
        "l", " ", "(", "f", "o", "r", " ", "p", "u", "t", "s", ")", " ", "t",
        "h", "e", " ", "u", "n", "d", "e", "r", "l", "y", "i", "n", "g", " ",
        "a", "s", "s", "e", "t", " ", "w", "h", "e", "n", " ", "e", "x", "e",
        "r", "c", "i", "s", "i", "n", "g", " ", "a", "n", " ", "o", "p", "t",
        "i", "o", "n", ".">>>>,
    \* Premium
    <<<<"P", "r", "e", "m", "i", "u", "m">>,
      <<"T", "h", "e", " ", "p", "r", "i", "c", "e", " ", "p", "a", "i", "d",
        " ", "b", "y", " ", "t", "h", "e", " ", "b", "u", "y", "e", "r", " ",
        "t", "o", " ", "t", "h", "e", " ", "s", "e", "l", "l", "e", "r", " ",
        "f", "o", "r", " ", "a", "n", " ", "o", "p", "t", "i", "o", "n", " ",
        "c", "o", "n", "t", "r", "a", "c", "t", ".">>>>,
    \* Expiration Date
    <<<<"E", "x", "p", "i", "r", "a", "t", "i", "o", "n", " ", "D", "a", "t",
      "e">>,
      <<"T", "h", "e", " ", "d", "a", "t", "e", " ", "a", "f", "t", "e", "r",
        " ", "w", "h", "i", "c", "h", " ", "t", "h", "e", " ", "o", "p", "t",
        "i", "o", "n", " ", "c", "e", "a", "s", "e", "s", " ", "t", "o", " ",
        "e", "x", "i", "s", "t", " ", "a", "n", "d", " ", "c", "a", "n", " ",
        "n", "o", " ", "l", "o", "n", "g", "e", "r", " ", "b", "e", " ", "e",
        "x", "e", "r", "c", "i", "s", "e", "d", ".">>>>,
    \* Intrinsic Value
    <<<<"I", "n", "t", "r", "i", "n", "s", "i", "c", " ", "V", "a", "l", "u",
      "e">>,
      <<"T", "h", "e", " ", "v", "a", "l", "u", "e", " ", "a", "n", " ", "o",
        "p", "t", "i", "o", "n", " ", "w", "o", "u", "l", "d", " ", "h", "a",
        "v", "e", " ", "i", "f", " ", "i", "t", " ", "w", "e", "r", "e", " ",
        "e", "x", "e", "r", "c", "i", "s", "e", "d", " ", "i", "m", "m", "e",
        "d", "i", "a", "t", "e", "l", "y", ".", " ", "F", "o", "r", " ", "c",
        "a", "l", "l", "s", ":", " ", "m", "a", "x", "(", "0", ",", " ", "u",
        "n", "d", "e", "r", "l", "y", "i", "n", "g", " ", "p", "r", "i", "c",
        "e", " ", "-", " ", "s", "t", "r", "i", "k", "e", " ", "p", "r", "i",
        "c", "e", ")", ".", " ", "F", "o", "r", " ", "p", "u", "t", "s", ":",
        " ", "m", "a", "x", "(", "0", ",", " ", "s", "t", "r", "i", "k", "e",
        " ", "p", "r", "i", "c", "e", " ", "-", " ", "u", "n", "d", "e", "r",
        "l", "y", "i", "n", "g", " ", "p", "r", "i", "c", "e", ")", ".">>>>,
    \* Time Value
    <<<<"T", "i", "m", "e", " ", "V", "a", "l", "u", "e">>,
      <<"T", "h", "e", " ", "p", "o", "r", "t", "i", "o", "n", " ", "o", "f",
        " ", "a", "n", " ", "o", "p", "t", "i", "o", "n", "'", "s", " ", "p",
        "r", "e", "m", "i", "u", "m", " ", "t", "h", "a", "t", " ", "e", "x",
        "c", "e", "e", "d", "s", " ", "i", "t", "s", " ", "i", "n", "t", "r",
        "i", "n", "s", "i", "c", " ", "v", "a", "l", "u", "e", ",", " ", "r",
        "e", "f", "l", "e", "c", "t", "i", "n", "g", " ", "t", "h", "e", " ",
        "p", "r", "o", "b", "a", "b", "i", "l", "i", "t", "y", " ", "o", "f",
        " ", "t", "h", "e", " ", "o", "p", "t", "i", "o", "n", " ", "b", "e",
        "c", "o", "m", "i", "n", "g", " ", "m", "o", "r", "e", " ", "v", "a",
        "l", "u", "a", "b", "l", "e", " ", "b", "e", "f", "o", "r", "e", " ",
        "e", "x", "p", "i", "r", "a", "t", "i", "o", "n", ".">>>>,
    \* In-the-Money (ITM)
    <<<<"I", "n", "-", "t", "h", "e", "-", "M", "o", "n", "e", "y", " ", "(",
      "I", "T", "M", ")">>,
      <<"A", " ", "c", "a", "l", "l", " ", "o", "p", "t", "i", "o", "n", " ",
        "i", "s", " ", "I", "T", "M", " ", "w", "h", "e", "n", " ", "t", "h",
        "e", " ", "u", "n", "d", "e", "r", "l", "y", "i", "n", "g", " ", "p",
        "r", "i", "c", "e", " ", "i", "s", " ", "a", "b", "o", "v", "e", " ",
        "t", "h", "e", " ", "s", "t", "r", "i", "k", "e", " ", "p", "r", "i",
        "c", "e", ".", " ", "A", " ", "p", "u", "t", " ", "o", "p", "t", "i",
        "o", "n", " ", "i", "s", " ", "I", "T", "M", " ", "w", "h", "e", "n",
        " ", "t", "h", "e", " ", "u", "n", "d", "e", "r", "l", "y", "i", "n",
        "g", " ", "p", "r", "i", "c", "e", " ", "i", "s", " ", "b", "e", "l",
        "o", "w", " ", "t", "h", "e", " ", "s", "t", "r", "i", "k", "e", " ",
        "p", "r", "i", "c", "e", ".">>>>,
    \* At-the-Money (ATM)
    <<<<"A", "t", "-", "t", "h", "e", "-", "M", "o", "n", "e", "y", " ", "(",
      "A", "T", "M", ")">>,
      <<"A", "n", " ", "o", "p", "t", "i", "o", "n", " ", "i", "s", " ", "A",
        "T", "M", " ", "w", "h", "e", "n", " ", "t", "h", "e", " ", "u", "n",
        "d", "e", "r", "l", "y", "i", "n", "g", " ", "p", "r", "i", "c", "e",
        " ", "i", "s", " ", "a", "p", "p", "r", "o", "x", "i", "m", "a", "t",
        "e", "l", "y", " ", "e", "q", "u", "a", "l", " ", "t", "o", " ", "t",
        "h", "e", " ", "s", "t", "r", "i", "k", "e", " ", "p", "r", "i", "c",
        "e", ".">>>>,
    \* Out-of-the-Money (OTM)
    <<<<"O", "u", "t", "-", "o", "f", "-", "t", "h", "e", "-", "M", "o", "n",
      "e", "y", " ", "(", "O", "T", "M", ")">>,
      <<"A", " ", "c", "a", "l", "l", " ", "o", "p", "t", "i", "o", "n", " ",
        "i", "s", " ", "O", "T", "M", " ", "w", "h", "e", "n", " ", "t", "h",
        "e", " ", "u", "n", "d", "e", "r", "l", "y", "i", "n", "g", " ", "p",
        "r", "i", "c", "e", " ", "i", "s", " ", "b", "e", "l", "o", "w", " ",
        "t", "h", "e", " ", "s", "t", "r", "i", "k", "e", " ", "p", "r", "i",
        "c", "e", ".", " ", "A", " ", "p", "u", "t", " ", "o", "p", "t", "i",
        "o", "n", " ", "i", "s", " ", "O", "T", "M", " ", "w", "h", "e", "n",
        " ", "t", "h", "e", " ", "u", "n", "d", "e", "r", "l", "y", "i", "n",
        "g", " ", "p", "r", "i", "c", "e", " ", "i", "s", " ", "a", "b", "o",
        "v", "e", " ", "t", "h", "e", " ", "s", "t", "r", "i", "k", "e", " ",
        "p", "r", "i", "c", "e", ".">>>>,
    \* Volatility
    <<<<"V", "o", "l", "a", "t", "i", "l", "i", "t", "y">>,
      <<"A", " ", "m", "e", "a", "s", "u", "r", "e", " ", "o", "f", " ", "t",
        "h", "e", " ", "a", "m", "o", "u", "n", "t", " ", "o", "f", " ", "f",
        "l", "u", "c", "t", "u", "a", "t", "i", "o", "n", " ", "i", "n", " ",
        "t", "h", "e", " ", "p", "r", "i", "c", "e", " ", "o", "f", " ", "t",
        "h", "e", " ", "u", "n", "d", "e", "r", "l", "y", "i", "n", "g", " ",
        "a", "s", "s", "e", "t", ",", " ", "t", "y", "p", "i", "c", "a", "l",
        "l", "y", " ", "e", "x", "p", "r", "e", "s", "s", "e", "d", " ", "a",
        "s", " ", "a", "n", " ", "a", "n", "n", "u", "a", "l", "i", "z", "e",
        "d", " ", "s", "t", "a", "n", "d", "a", "r", "d", " ", "d", "e", "v",
        "i", "a", "t", "i", "o", "n", ".">>>>,
    \* Exercise
    <<<<"E", "x", "e", "r", "c", "i", "s", "e">>,
      <<"T", "h", "e", " ", "a", "c", "t", " ", "o", "f", " ", "c", "o", "n",
        "v", "e", "r", "t", "i", "n", "g", " ", "a", "n", " ", "o", "p", "t",
        "i", "o", "n", " ", "i", "n", "t", "o", " ", "t", "h", "e", " ", "u",
        "n", "d", "e", "r", "l", "y", "i", "n", "g", " ", "p", "o", "s", "i",
        "t", "i", "o", "n", " ", "(", "b", "u", "y", "i", "n", "g", " ", "t",
        "h", "e", " ", "a", "s", "s", "e", "t", " ", "f", "o", "r", " ", "c",
        "a", "l", "l", "s", ",", " ", "s", "e", "l", "l", "i", "n", "g", " ",
        "i", "t", " ", "f", "o", "r", " ", "p", "u", "t", "s", ")", ".">>>>,
    \* Assignment
    <<<<"A", "s", "s", "i", "g", "n", "m", "e", "n", "t">>,
      <<"T", "h", "e", " ", "o", "b", "l", "i", "g", "a", "t", "i", "o", "n",
        " ", "o", "f", " ", "t", "h", "e", " ", "o", "p", "t", "i", "o", "n",
        " ", "w", "r", "i", "t", "e", "r", " ", "t", "o", " ", "f", "u", "l",
        "f", "i", "l", "l", " ", "t", "h", "e", " ", "t", "e", "r", "m", "s",
        " ", "o", "f", " ", "t", "h", "e", " ", "c", "o", "n", "t", "r", "a",
        "c", "t", " ", "w", "h", "e", "n", " ", "t", "h", "e", " ", "b", "u",
        "y", "e", "r", " ", "e", "x", "e", "r", "c", "i", "s", "e", "s", " ",
        "t", "h", "e", " ", "o", "p", "t", "i", "o", "n", ".">>>>,
    \* Bull Spread
    <<<<"B", "u", "l", "l", " ", "S", "p", "r", "e", "a", "d">>,
      <<"A", "n", " ", "o", "p", "t", "i", "o", "n", "s", " ", "s", "t", "r",
        "a", "t", "e", "g", "y", " ", "i", "n", "v", "o", "l", "v", "i", "n",
        "g", " ", "t", "h", "e", " ", "p", "u", "r", "c", "h", "a", "s", "e",
        " ", "o", "f", " ", "a", " ", "c", "a", "l", "l", " ", "o", "p", "t",
        "i", "o", "n", " ", "w", "i", "t", "h", " ", "a", " ", "l", "o", "w",
        "e", "r", " ", "s", "t", "r", "i", "k", "e", " ", "p", "r", "i", "c",
        "e", " ", "a", "n", "d", " ", "t", "h", "e", " ", "s", "a", "l", "e",
        " ", "o", "f", " ", "a", " ", "c", "a", "l", "l", " ", "o", "p", "t",
        "i", "o", "n", " ", "w", "i", "t", "h", " ", "a", " ", "h", "i", "g",
        "h", "e", "r", " ", "s", "t", "r", "i", "k", "e", " ", "p", "r", "i",
        "c", "e", ",", " ", "b", "o", "t", "h", " ", "w", "i", "t", "h", " ",
        "t", "h", "e", " ", "s", "a", "m", "e", " ", "e", "x", "p", "i", "r",
        "a", "t", "i", "o", "n", " ", "d", "a", "t", "e", ".">>>>,
    \* Bear Spread
    <<<<"B", "e", "a", "r", " ", "S", "p", "r", "e", "a", "d">>,
      <<"A", "n", " ", "o", "p", "t", "i", "o", "n", "s", " ", "s", "t", "r",
        "a", "t", "e", "g", "y", " ", "i", "n", "v", "o", "l", "v", "i", "n",
        "g", " ", "t", "h", "e", " ", "p", "u", "r", "c", "h", "a", "s", "e",
        " ", "o", "f", " ", "a", " ", "p", "u", "t", " ", "o", "p", "t", "i",
        "o", "n", " ", "w", "i", "t", "h", " ", "a", " ", "h", "i", "g", "h",
        "e", "r", " ", "s", "t", "r", "i", "k", "e", " ", "p", "r", "i", "c",
        "e", " ", "a", "n", "d", " ", "t", "h", "e", " ", "s", "a", "l", "e",
        " ", "o", "f", " ", "a", " ", "p", "u", "t", " ", "o", "p", "t", "i",
        "o", "n", " ", "w", "i", "t", "h", " ", "a", " ", "l", "o", "w", "e",
        "r", " ", "s", "t", "r", "i", "k", "e", " ", "p", "r", "i", "c", "e",
        ",", " ", "b", "o", "t", "h", " ", "w", "i", "t", "h", " ", "t", "h",
        "e", " ", "s", "a", "m", "e", " ", "e", "x", "p", "i", "r", "a", "t",
        "i", "o", "n", " ", "d", "a", "t", "e", ".">>>>,
    \* Straddle
    <<<<"S", "t", "r", "a", "d", "d", "l", "e">>,
      <<"A", "n", " ", "o", "p", "t", "i", "o", "n", "s", " ", "s", "t", "r",
        "a", "t", "e", "g", "y", " ", "i", "n", "v", "o", "l", "v", "i", "n",
        "g", " ", "t", "h", "e", " ", "p", "u", "r", "c", "h", "a", "s", "e",
        " ", "o", "f", " ", "b", "o", "t", "h", " ", "a", " ", "c", "a", "l",
        "l", " ", "a", "n", "d", " ", "a", " ", "p", "u", "t", " ", "w", "i",
        "t", "h", " ", "t", "h", "e", " ", "s", "a", "m", "e", " ", "s", "t",
        "r", "i", "k", "e", " ", "p", "r", "i", "c", "e", " ", "a", "n", "d",
        " ", "e", "x", "p", "i", "r", "a", "t", "i", "o", "n", " ", "d", "a",
        "t", "e", ".">>>>,
    \* Strangle
    <<<<"S", "t", "r", "a", "n", "g", "l", "e">>,
      <<"A", "n", " ", "o", "p", "t", "i", "o", "n", "s", " ", "s", "t", "r",
        "a", "t", "e", "g", "y", " ", "i", "n", "v", "o", "l", "v", "i", "n",
        "g", " ", "t", "h", "e", " ", "p", "u", "r", "c", "h", "a", "s", "e",
        " ", "o", "f", " ", "a", "n", " ", "o", "u", "t", "-", "o", "f", "-",
        "t", "h", "e", "-", "m", "o", "n", "e", "y", " ", "c", "a", "l", "l",
        " ", "a", "n", "d", " ", "a", "n", " ", "o", "u", "t", "-", "o", "f",
        "-", "t", "h", "e", "-", "m", "o", "n", "e", "y", " ", "p", "u", "t",
        " ", "w", "i", "t", "h", " ", "t", "h", "e", " ", "s", "a", "m", "e",
        " ", "e", "x", "p", "i", "r", "a", "t", "i", "o", "n", " ", "d", "a",
        "t", "e", ".">>>>,
    \* Butterfly Spread
    <<<<"B", "u", "t", "t", "e", "r", "f", "l", "y", " ", "S", "p", "r", "e",
      "a", "d">>,
      <<"A", "n", " ", "o", "p", "t", "i", "o", "n", "s", " ", "s", "t", "r",
        "a", "t", "e", "g", "y", " ", "i", "n", "v", "o", "l", "v", "i", "n",
        "g", " ", "b", "u", "y", "i", "n", "g", " ", "a", " ", "c", "a", "l",
        "l", " ", "a", "t", " ", "o", "n", "e", " ", "s", "t", "r", "i", "k",
        "e", " ", "p", "r", "i", "c", "e", ",", " ", "s", "e", "l", "l", "i",
        "n", "g", " ", "t", "w", "o", " ", "c", "a", "l", "l", "s", " ", "a",
        "t", " ", "a", " ", "h", "i", "g", "h", "e", "r", " ", "s", "t", "r",
        "i", "k", "e", " ", "p", "r", "i", "c", "e", ",", " ", "a", "n", "d",
        " ", "b", "u", "y", "i", "n", "g", " ", "a", "n", "o", "t", "h", "e",
        "r", " ", "c", "a", "l", "l", " ", "a", "t", " ", "a", "n", " ", "e",
        "v", "e", "n", " ", "h", "i", "g", "h", "e", "r", " ", "s", "t", "r",
        "i", "k", "e", " ", "p", "r", "i", "c", "e", ".">>>>,
    \* Risk Reversal
    <<<<"R", "i", "s", "k", " ", "R", "e", "v", "e", "r", "s", "a", "l">>,
      <<"A", "n", " ", "o", "p", "t", "i", "o", "n", "s", " ", "s", "t", "r",
        "a", "t", "e", "g", "y", " ", "i", "n", "v", "o", "l", "v", "i", "n",
        "g", " ", "b", "u", "y", "i", "n", "g", " ", "a", "n", " ", "o", "u",
        "t", "-", "o", "f", "-", "t", "h", "e", "-", "m", "o", "n", "e", "y",
        " ", "c", "a", "l", "l", " ", "a", "n", "d", " ", "s", "e", "l", "l",
        "i", "n", "g", " ", "a", "n", " ", "o", "u", "t", "-", "o", "f", "-",
        "t", "h", "e", "-", "m", "o", "n", "e", "y", " ", "p", "u", "t", " ",
        "w", "i", "t", "h", " ", "t", "h", "e", " ", "s", "a", "m", "e", " ",
        "e", "x", "p", "i", "r", "a", "t", "i", "o", "n", " ", "d", "a", "t",
        "e", ".">>>>,
    \* Put-Call Parity
    <<<<"P", "u", "t", "-", "C", "a", "l", "l", " ", "P", "a", "r", "i", "t",
      "y">>,
      <<"A", " ", "r", "e", "l", "a", "t", "i", "o", "n", "s", "h", "i", "p",
        " ", "b", "e", "t", "w", "e", "e", "n", " ", "t", "h", "e", " ", "p",
        "r", "i", "c", "e", "s", " ", "o", "f", " ", "E", "u", "r", "o", "p",
        "e", "a", "n", " ", "p", "u", "t", " ", "a", "n", "d", " ", "c", "a",
        "l", "l", " ", "o", "p", "t", "i", "o", "n", "s", " ", "w", "i", "t",
        "h", " ", "t", "h", "e", " ", "s", "a", "m", "e", " ", "s", "t", "r",
        "i", "k", "e", " ", "p", "r", "i", "c", "e", " ", "a", "n", "d", " ",
        "e", "x", "p", "i", "r", "a", "t", "i", "o", "n", " ", "d", "a", "t",
        "e", ":", " ", "C", "a", "l", "l", " ", "-", " ", "P", "u", "t", " ",
        "=", " ", "S", "t", "o", "c", "k", " ", "-", " ", "P", "r", "e", "s",
        "e", "n", "t", " ", "V", "a", "l", "u", "e", " ", "o", "f", " ", "S",
        "t", "r", "i", "k", "e", ".">>>>,
    \* Delta
    <<<<"D", "e", "l", "t", "a">>,
      <<"A", " ", "m", "e", "a", "s", "u", "r", "e", " ", "o", "f", " ", "h",
        "o", "w", " ", "m", "u", "c", "h", " ", "a", "n", " ", "o", "p", "t",
        "i", "o", "n", "'", "s", " ", "p", "r", "i", "c", "e", " ", "i", "s",
        " ", "e", "x", "p", "e", "c", "t", "e", "d", " ", "t", "o", " ", "c",
        "h", "a", "n", "g", "e", " ", "f", "o", "r", " ", "a", " ", "$", "1",
        " ", "c", "h", "a", "n", "g", "e", " ", "i", "n", " ", "t", "h", "e",
        " ", "p", "r", "i", "c", "e", " ", "o", "f", " ", "t", "h", "e", " ",
        "u", "n", "d", "e", "r", "l", "y", "i", "n", "g", " ", "a", "s", "s",
        "e", "t", ".">>>>,
    \* Theta
    <<<<"T", "h", "e", "t", "a">>,
      <<"A", " ", "m", "e", "a", "s", "u", "r", "e", " ", "o", "f", " ", "t",
        "h", "e", " ", "r", "a", "t", "e", " ", "a", "t", " ", "w", "h", "i",
        "c", "h", " ", "a", "n", " ", "o", "p", "t", "i", "o", "n", " ", "l",
        "o", "s", "e", "s", " ", "v", "a", "l", "u", "e", " ", "a", "s", " ",
        "t", "i", "m", "e", " ", "p", "a", "s", "s", "e", "s", " ", "(", "t",
        "i", "m", "e", " ", "d", "e", "c", "a", "y", ")", ".">>>>,
    \* Vega
    <<<<"V", "e", "g", "a">>,
      <<"A", " ", "m", "e", "a", "s", "u", "r", "e", " ", "o", "f", " ", "a",
        "n", " ", "o", "p", "t", "i", "o", "n", "'", "s", " ", "s", "e", "n",
        "s", "i", "t", "i", "v", "i", "t", "y", " ", "t", "o", " ", "c", "h",
        "a", "n", "g", "e", "s", " ", "i", "n", " ", "t", "h", "e", " ", "i",
        "m", "p", "l", "i", "e", "d", " ", "v", "o", "l", "a", "t", "i", "l",
        "i", "t", "y", " ", "o", "f", " ", "t", "h", "e", " ", "u", "n", "d",
        "e", "r", "l", "y", "i", "n", "g", " ", "a", "s", "s", "e", "t",
        ".">>>>,
    \* Gamma
    <<<<"G", "a", "m", "m", "a">>,
      <<"A", " ", "m", "e", "a", "s", "u", "r", "e", " ", "o", "f", " ", "t",
        "h", "e", " ", "r", "a", "t", "e", " ", "o", "f", " ", "c", "h", "a",
        "n", "g", "e", " ", "i", "n", " ", "a", "n", " ", "o", "p", "t", "i",
        "o", "n", "'", "s", " ", "d", "e", "l", "t", "a", " ", "f", "o", "r",
        " ", "a", " ", "$", "1", " ", "c", "h", "a", "n", "g", "e", " ", "i",
        "n", " ", "t", "h", "e", " ", "p", "r", "i", "c", "e", " ", "o", "f",
        " ", "t", "h", "e", " ", "u", "n", "d", "e", "r", "l", "y", "i", "n",
        "g", " ", "a", "s", "s", "e", "t", ".">>>>,
    \* Writer
    <<<<"W", "r", "i", "t", "e", "r">>,
      <<"T", "h", "e", " ", "s", "e", "l", "l", "e", "r", " ", "o", "f", " ",
        "a", "n", " ", "o", "p", "t", "i", "o", "n", " ", "c", "o", "n", "t",
        "r", "a", "c", "t", " ", "w", "h", "o", " ", "r", "e", "c", "e", "i",
        "v", "e", "s", " ", "t", "h", "e", " ", "p", "r", "e", "m", "i", "u",
        "m", " ", "a", "n", "d", " ", "a", "s", "s", "u", "m", "e", "s", " ",
        "t", "h", "e", " ", "o", "b", "l", "i", "g", "a", "t", "i", "o", "n",
        " ", "t", "o", " ", "s", "e", "l", "l", " ", "(", "f", "o", "r", " ",
        "c", "a", "l", "l", "s", ")", " ", "o", "r", " ", "b", "u", "y", " ",
        "(", "f", "o", "r", " ", "p", "u", "t", "s", ")", " ", "t", "h", "e",
        " ", "u", "n", "d", "e", "r", "l", "y", "i", "n", "g", " ", "a", "s",
        "s", "e", "t", " ", "i", "f", " ", "t", "h", "e", " ", "o", "p", "t",
        "i", "o", "n", " ", "i", "s", " ", "e", "x", "e", "r", "c", "i", "s",
        "e", "d", ".">>>>,
    \* Covered Call
    <<<<"C", "o", "v", "e", "r", "e", "d", " ", "C", "a", "l", "l">>,
      <<"A", " ", "s", "t", "r", "a", "t", "e", "g", "y", " ", "i", "n", " ",
        "w", "h", "i", "c", "h", " ", "a", "n", " ", "i", "n", "v", "e", "s",
        "t", "o", "r", " ", "h", "o", "l", "d", "s", " ", "a", " ", "l", "o",
        "n", "g", " ", "p", "o", "s", "i", "t", "i", "o", "n", " ", "i", "n",
        " ", "t", "h", "e", " ", "u", "n", "d", "e", "r", "l", "y", "i", "n",
        "g", " ", "a", "s", "s", "e", "t", " ", "a", "n", "d", " ", "s", "e",
        "l", "l", "s", " ", "a", " ", "c", "a", "l", "l", " ", "o", "p", "t",
        "i", "o", "n", " ", "o", "n", " ", "t", "h", "a", "t", " ", "s", "a",
        "m", "e", " ", "a", "s", "s", "e", "t", ".">>>>,
    \* Naked Option
    <<<<"N", "a", "k", "e", "d", " ", "O", "p", "t", "i", "o", "n">>,
      <<"A", "n", " ", "o", "p", "t", "i", "o", "n", " ", "p", "o", "s", "i",
        "t", "i", "o", "n", " ", "i", "n", " ", "w", "h", "i", "c", "h", " ",
        "t", "h", "e", " ", "w", "r", "i", "t", "e", "r", " ", "d", "o", "e",
        "s", " ", "n", "o", "t", " ", "h", "o", "l", "d", " ", "a", "n", " ",
        "o", "f", "f", "s", "e", "t", "t", "i", "n", "g", " ", "p", "o", "s",
        "i", "t", "i", "o", "n", " ", "i", "n", " ", "t", "h", "e", " ", "u",
        "n", "d", "e", "r", "l", "y", "i", "n", "g", " ", "a", "s", "s", "e",
        "t", ".">>>>,
    \* LEAPS
    <<<<"L", "E", "A", "P", "S">>,
      <<"L", "o", "n", "g", "-", "t", "e", "r", "m", " ", "E", "q", "u", "i",
        "t", "y", " ", "A", "n", "t", "i", "c", "i", "p", "a", "t", "i", "o",
        "n", " ", "S", "e", "c", "u", "r", "i", "t", "i", "e", "s", ",", " ",
        "w", "h", "i", "c", "h", " ", "a", "r", "e", " ", "o", "p", "t", "i",
        "o", "n", "s", " ", "w", "i", "t", "h", " ", "e", "x", "p", "i", "r",
        "a", "t", "i", "o", "n", " ", "d", "a", "t", "e", "s", " ", "l", "o",
        "n", "g", "e", "r", " ", "t", "h", "a", "n", " ", "o", "n", "e", " ",
        "y", "e", "a", "r", ".">>>>,
    \* Binary Option
    <<<<"B", "i", "n", "a", "r", "y", " ", "O", "p", "t", "i", "o", "n">>,
      <<"A", "n", " ", "o", "p", "t", "i", "o", "n", " ", "w", "i", "t", "h",
        " ", "a", " ", "f", "i", "x", "e", "d", " ", "p", "a", "y", "o", "u",
        "t", " ", "i", "f", " ", "t", "h", "e", " ", "u", "n", "d", "e", "r",
        "l", "y", "i", "n", "g", " ", "a", "s", "s", "e", "t", " ", "r", "e",
        "a", "c", "h", "e", "s", " ", "o", "r", " ", "e", "x", "c", "e", "e",
        "d", "s", " ", "t", "h", "e", " ", "s", "t", "r", "i", "k", "e", " ",
        "p", "r", "i", "c", "e", ",", " ", "a", "n", "d", " ", "n", "o", " ",
        "p", "a", "y", "o", "u", "t", " ", "o", "t", "h", "e", "r", "w", "i",
        "s", "e", ".">>>>
>>

UpperCase ==
    <<"A", "B", "C", "D", "E", "F", "G", "H", "I", "J", "K", "L", "M",
      "N", "O", "P", "Q", "R", "S", "T", "U", "V", "W", "X", "Y", "Z">>

LowerCase ==
    <<"a", "b", "c", "d", "e", "f", "g", "h", "i", "j", "k", "l", "m",
      "n", "o", "p", "q", "r", "s", "t", "u", "v", "w", "x", "y", "z">>

\* str.lower() of one character
LowerChar ==
    [c \in {UpperCase[k] : k \in DOMAIN UpperCase} |->
        LowerCase[CHOOSE k \in DOMAIN UpperCase : UpperCase[k] = c]]

\* str.lower()
\* (before lower, the variant that leaves the case as it is)
lower_keep(s) == s

lower(s) ==
    [i \in DOMAIN s |-> IF s[i] \in DOMAIN LowerChar THEN LowerChar[s[i]] ELSE s[i]]

\* needle in hay
In(needle, hay) ==
    \E k \in 0..(Len(hay) - Len(needle)) :
        \A j \in 1..Len(needle) : hay[k + j] = needle[j]

GlossaryEN(w) ==
    LET search_term == w.search_term
        Matches(e) == \/ In(lower(search_term), lower(e[1]))
                      \/ In(lower(search_term), lower(e[2]))
        filtered_glossary ==
            IF search_term # <<>> THEN SelectSeq(glossary, Matches)
            ELSE glossary
    IN  Page([search_term |-> search_term,
              filtered_glossary |-> filtered_glossary,
              warning |-> filtered_glossary = <<>>],
             <<>>, "none", {})

----------------------------------------------------------------------------
(* One run of a script, from its first line to its last *)

Pages(s) ==
    IF s = "option-payoffs-app"
    THEN <<"Basic Options", "Option Strategies", "Put-Call Parity",
           "Factors Affecting Price">>
    ELSE <<"Introduction to Derivatives", "Option Basics", "Option Payoffs",
           "Put-Call Parity", "Option Strategies", "Glossary">>

\* the page the script dispatches to (the if/elif chain on page)
Dispatch(s, w, env) ==
    IF s = "option-payoffs-app" THEN
        IF w.page = "Basic Options" THEN BasicOptions(w)
        ELSE IF w.page = "Option Strategies" THEN OptionStrategies(w)
        ELSE IF w.page = "Put-Call Parity" THEN PutCallParity(w, env)
        ELSE FactorsAffectingPrice(w, env)
    ELSE
        IF w.page = "Option Payoffs" THEN OptionPayoffsEN(w)
        ELSE IF w.page = "Put-Call Parity" THEN PutCallParityEN(w)
        ELSE IF w.page = "Option Strategies" THEN OptionStrategiesEN(w)
        ELSE IF w.page = "Glossary" THEN GlossaryEN(w)
        ELSE Page([static |-> w.page], <<>>, "none", {})

\* the statements of the footer: options-EN reads datetime.now().year
FooterStatements(s) ==
    IF s = "option-payoffs-app" THEN <<>> ELSE <<Use("datetime")>>

\* The run of script s with the widget values w, in a session whose
\* previous run had bound the names prev: the result displayed and the names
\* bound when the run ends.  An error ends the run where it is raised, so
\* the footer is rendered only by a run that raised none.
Script(s, w, prev) ==
    LET env == StartNamespace(s, prev) \cup Defs(s)
        Footer(pg) ==
            IF pg.error = "none"
            THEN Exec(FooterStatements(s), env \cup pg.binds)
            ELSE [evals |-> <<>>, error |-> pg.error, binds |-> {}]
        End(pg, foot) ==
            [out |-> [page |-> w.page, shown |-> pg.shown, evals |-> pg.evals,
                      error |-> foot.error, footer |-> foot.error = "none"],
             ns |-> env \cup pg.binds]
        Run(pg) == End(pg, Footer(pg))
    IN  Run(Dispatch(s, w, env))

----------------------------------------------------------------------------
(* Widgets: their defaults and the values one interaction can give them *)

\* the records of w with widget f set to a value of V
With(w, f, V) == {[w EXCEPT ![f] = v] : v \in V}

\* option-payoffs-app, Option Strategies: the sliders of a strategy at
\* their defaults
StrategyDefaults(strategy) ==
    LET base == [page |-> "Option Strategies", strategy |-> strategy]
    IN  IF strategy \in {"Bull Spread", "Bear Spread", "Strangle"}
        THEN base @@ [K1 |-> 90, K2 |-> 110]
        ELSE IF strategy = "Straddle" THEN base @@ [K |-> 100]
        ELSE IF strategy = "Butterfly Spread"
             THEN base @@ [K1 |-> 80, K2 |-> 100, K3 |-> 120]
        ELSE base @@ [K1 |-> 90, K2 |-> 110]

\* options-EN, Option Strategies: the sliders of a strategy at their defaults
StrategyDefaultsEN(strategy, stock_price) ==
    LET base == [page |-> "Option Strategies", strategy |-> strategy,
                 stock_price |-> stock_price]
    IN  IF strategy \in {"Bull Spread", "Bear Spread", "Risk Reversal"}
        THEN base @@ [lower_strike |-> 90, upper_strike |-> 110]
        ELSE IF strategy \in {"Straddle", "Butterfly Spread"}
             THEN base @@ [center_strike |-> 100]
        ELSE base @@ [put_strike |-> 90, call_strike |-> 110]

\* the widgets of a page when the page is first shown
Defaults(s, page) ==
    IF s = "option-payoffs-app" THEN
        IF page = "Basic Options"
        THEN [page |-> page, S0 |-> 100, K |-> 100, premium |-> 5,
              option_type |-> "Call"]
        ELSE IF page = "Option Strategies" THEN StrategyDefaults("Bull Spread")
        ELSE IF page = "Put-Call Parity"
             THEN [page |-> page, S0 |-> 100, K |-> 100, r |-> 500, T |-> 10]
        ELSE [page |-> page, factor |-> "Underlying Asset Price"]
    ELSE
        IF page = "Option Payoffs"
        THEN [page |-> page, option_type |-> "Call", position |-> "Long",
              strike_price |-> 100, premium |-> 10]
        ELSE IF page = "Put-Call Parity"
             THEN [page |-> page, asset_price |-> 100, strike_price |-> 100,
                   interest_rate |-> 500, time_to_expiry |-> 10,
                   option_choice |-> "Call", option_price |-> 20]
        ELSE IF page = "Option Strategies"
             THEN StrategyDefaultsEN("Bull Spread", 100)
        ELSE IF page = "Glossary" THEN [page |-> page, search_term |-> <<>>]
        ELSE [page |-> page]

Strategies ==
    {"Bull Spread", "Bear Spread", "Straddle", "Strangle", "Butterfly Spread",
     "Risk Reversal"}

Factors ==
    {"Underlying Asset Price", "Time to Expiry", "Volatility", "Interest Rate",
     "Strike Price"}

\* option-payoffs-app, Basic Options: sliders 50..150, 50..150, 0..20
BasicOptionsMoves(w) ==
    With(w, "S0", Sample(50, 150, 100))
    \cup With(w, "K", Sample(50, 150, 100))
    \cup With(w, "premium", Sample(0, 20, 5))
    \cup With(w, "option_type", {"Call", "Put", "Binary Call", "Binary Put"})

\* option-payoffs-app, Option Strategies.  The minimum of a slider is part
\* of the widget: when the slider it depends on moves, it is a new widget,
\* shown at its default.
OptionStrategiesMoves(w) ==
    {StrategyDefaults(st) : st \in Strategies}
    \cup
    IF w.strategy \in {"Bull Spread", "Bear Spread", "Strangle"}
    THEN {[w EXCEPT !.K1 = v, !.K2 = 110] : v \in Sample(70, 100, 90)}
         \cup With(w, "K2", Sample(w.K1, 130, 110))
    ELSE IF w.strategy = "Straddle" THEN With(w, "K", Sample(70, 130, 100))
    ELSE IF w.strategy = "Butterfly Spread"
    THEN {[w EXCEPT !.K1 = v, !.K2 = 100,
                    !.K3 = IF w.K2 = 100 THEN w.K3 ELSE 120] :
             v \in Sample(70, 90, 80)}
         \cup {[w EXCEPT !.K2 = v, !.K3 = 120] : v \in Sample(w.K1 + 10, 110, 100)}
         \cup With(w, "K3", Sample(w.K2 + 10, 130, 120))
    ELSE With(w, "K1", Sample(70, 95, 90)) \cup With(w, "K2", Sample(105, 130, 110))

\* option-payoffs-app, Put-Call Parity: S0 and K 50..150, the rate 0.0..10.0
\* percent in steps of 0.01, T 0.1..2.0 in steps of 0.1
PutCallParityMoves(w) ==
    With(w, "S0", Sample(50, 150, 100))
    \cup With(w, "K", Sample(50, 150, 100))
    \cup With(w, "r", Sample(0, 1000, 500))
    \cup With(w, "T", Sample(1, 20, 10))

FactorsMoves(w) == With(w, "factor", Factors)

\* options-EN, Option Payoffs
OptionPayoffsENMoves(w) ==
    With(w, "option_type", {"Call", "Put"})
    \cup With(w, "position", {"Long", "Short"})
    \cup With(w, "strike_price", Sample(50, 150, 100))
    \cup With(w, "premium", Sample(1, 30, 10))

\* options-EN, Put-Call Parity: the rate 1.0..10.0 percent in steps of 0.01,
\* the time 0.0..2.0 in steps of 0.1, the price 0.0..50.0 in steps of 0.5;
\* the call and the put price sliders are two widgets
PutCallParityENMoves(w) ==
    With(w, "asset_price", Sample(80, 120, 100))
    \cup With(w, "strike_price", Sample(80, 120, 100))
    \cup With(w, "interest_rate", Sample(100, 1000, 500))
    \cup With(w, "time_to_expiry", Sample(0, 20, 10))
    \cup {[w EXCEPT !.option_choice = c,
                    !.option_price = IF c = w.option_choice
                                     THEN w.option_price ELSE 20] :
             c \in {"Call", "Put"}}
    \cup With(w, "option_price", Sample(0, 100, 20))

\* options-EN, Option Strategies
OptionStrategiesENMoves(w) ==
    {StrategyDefaultsEN(st, w.stock_price) : st \in Strategies}
    \cup With(w, "stock_price", Sample(80, 120, 100))
    \cup
    IF w.strategy \in {"Bull Spread", "Bear Spread", "Risk Reversal"}
    THEN With(w, "lower_strike", Sample(70, 100, 90))
         \cup With(w, "upper_strike", Sample(100, 130, 110))
    ELSE IF w.strategy \in {"Straddle", "Butterfly Spread"}
    THEN With(w, "center_strike", Sample(80, 120, 100))
    ELSE With(w, "put_strike", Sample(70, 100, 90))
         \cup With(w, "call_strike", Sample(100, 130, 110))

\* the characters search terms are made of
TermAlphabet == {"p", "P", "u", "t"}

\* options-EN, Glossary: the text in the search box after one edit: a
\* character typed at its end, its last character deleted, or the box cleared
GlossaryENMoves(w) ==
    LET t == w.search_term
    IN  With(w, "search_term",
             {<<>>}
             \cup (IF t = <<>> THEN {} ELSE {SubSeq(t, 1, Len(t) - 1)})
             \cup (IF Len(t) >= MaxTermLen THEN {}
                   ELSE {Append(t, c) : c \in TermAlphabet}))

----------------------------------------------------------------------------
(* The session *)

\* the state after the interaction that leaves the widgets at w: the script
\* has run again
Rerun(w) ==
    \E run \in {Script(script, w, ns)} :
        /\ widgets' = w
        /\ before' = ns
        /\ out' = run.out
        /\ ns' = run.ns
        /\ UNCHANGED script

\* A session opens on the first page of its script and runs it.
Init ==
    /\ script \in {"option-payoffs-app", "options-EN"}
    /\ widgets = Defaults(script, Pages(script)[1])
    /\ before = {}
    /\ \E run \in {Script(script, widgets, {})} :
          out = run.out /\ ns = run.ns

\* the sidebar radio: another page is shown, its widgets at their defaults
Navigate ==
    \E k \in DOMAIN Pages(script) :
        /\ Pages(script)[k] # widgets.page
        /\ Rerun(Defaults(script, Pages(script)[k]))

ChangeBasicOptions ==
    /\ script = "option-payoffs-app" /\ widgets.page = "Basic Options"
    /\ \E w \in BasicOptionsMoves(widgets) : Rerun(w)

ChangeOptionStrategies ==
    /\ script = "option-payoffs-app" /\ widgets.page = "Option Strategies"
    /\ \E w \in OptionStrategiesMoves(widgets) : Rerun(w)

ChangePutCallParity ==
    /\ script = "option-payoffs-app" /\ widgets.page = "Put-Call Parity"
    /\ \E w \in PutCallParityMoves(widgets) : Rerun(w)

ChangeFactor ==
    /\ script = "option-payoffs-app" /\ widgets.page = "Factors Affecting Price"
    /\ \E w \in FactorsMoves(widgets) : Rerun(w)

ChangeOptionPayoffsEN ==
    /\ script = "options-EN" /\ widgets.page = "Option Payoffs"
    /\ \E w \in OptionPayoffsENMoves(widgets) : Rerun(w)

ChangePutCallParityEN ==
    /\ script = "options-EN" /\ widgets.page = "Put-Call Parity"
    /\ \E w \in PutCallParityENMoves(widgets) : Rerun(w)

ChangeOptionStrategiesEN ==
    /\ script = "options-EN" /\ widgets.page = "Option Strategies"
    /\ \E w \in OptionStrategiesENMoves(widgets) : Rerun(w)

SearchGlossary ==
    /\ script = "options-EN" /\ widgets.page = "Glossary"
    /\ \E w \in GlossaryENMoves(widgets) : Rerun(w)

Next ==
    \/ Navigate
    \/ ChangeBasicOptions
    \/ ChangeOptionStrategies
    \/ ChangePutCallParity
    \/ ChangeFactor
    \/ ChangeOptionPayoffsEN
    \/ ChangePutCallParityEN
    \/ ChangeOptionStrategiesEN
    \/ SearchGlossary

Spec == Init /\ [][Next]_vars

----------------------------------------------------------------------------
(* Properties *)

App == script = "option-payoffs-app"

EN == script = "options-EN"

OnPage(s, page) == script = s /\ widgets.page = page

OnStrategy(s, strategy) ==
    OnPage(s, "Option Strategies") /\ widgets.strategy = strategy

\* C1: call_payoff(S,K) - put_payoff(S,K) == S - K at every grid price S and
\* every strike K of a page that computes both payoffs for one strike (the
\* Put-Call Parity page and the Straddle); on the Put-Call Parity page the
\* plotted 'Call - Put' curve equals the 'Stock - Strike' curve at every
\* grid point.
C1_PayoffParity ==
    /\ OnPage("option-payoffs-app", "Put-Call Parity") =>
          \A i \in DOMAIN out.shown.S_range :
              /\ out.shown.call_payoff_values[i] - out.shown.put_payoff_values[i]
                    = out.shown.S_range[i] - Dollars(widgets.K)
              /\ out.shown.call_minus_put[i] = out.shown.stock_minus_bond[i]
    /\ OnStrategy("option-payoffs-app", "Straddle") =>
          \A i \in DOMAIN out.shown.S_range :
              out.shown.call[i] - out.shown.put[i]
                 = out.shown.S_range[i] - Dollars(widgets.K)

\* C1 witness: the Put-Call Parity page has been run, with the call in the
\* money at some grid price and the put in the money at another.
C1_Witness ==
    /\ OnPage("option-payoffs-app", "Put-Call Parity")
    /\ out.page = "Put-Call Parity"
    /\ \E i \in DOMAIN out.shown.S_range : out.shown.call_payoff_values[i] > 0
    /\ \E i \in DOMAIN out.shown.S_range : out.shown.put_payoff_values[i] > 0

\* the arrays of the page shown that call_payoff or put_payoff returned
KernelPayoffs ==
    IF OnPage("option-payoffs-app", "Basic Options")
    THEN IF widgets.option_type \in {"Call", "Put"} THEN {out.shown.payoff} ELSE {}
    ELSE IF OnPage("option-payoffs-app", "Put-Call Parity")
    THEN {out.shown.call_payoff_values, out.shown.put_payoff_values}
    ELSE IF OnStrategy("option-payoffs-app", "Bull Spread")
    THEN {out.shown.long_call, Neg(out.shown.short_call)}
    ELSE IF OnStrategy("option-payoffs-app", "Bear Spread")
    THEN {out.shown.long_put, Neg(out.shown.short_put)}
    ELSE IF \/ OnStrategy("option-payoffs-app", "Straddle")
            \/ OnStrategy("option-payoffs-app", "Strangle")
    THEN {out.shown.call, out.shown.put}
    ELSE IF OnStrategy("option-payoffs-app", "Butterfly Spread")
    THEN {out.shown.call1, out.shown.call3}
    ELSE IF OnStrategy("option-payoffs-app", "Risk Reversal")
    THEN {out.shown.long_call, Neg(out.shown.short_put)}
    ELSE {}

\* C2: call_payoff(S,K) >= 0 and put_payoff(S,K) >= 0 for every grid price S
\* and strike K: no array returned by either function holds a negative value.
C2_PayoffsNonNegative ==
    \A a \in KernelPayoffs : \A i \in DOMAIN a : a[i] >= 0

\* C2 witness: a call whose strike lies above some grid price (S - K < 0
\* there) and below another.
C2_Witness ==
    /\ OnPage("option-payoffs-app", "Basic Options")
    /\ widgets.option_type = "Call"
    /\ \E i \in DOMAIN out.shown.S_range :
          out.shown.S_range[i] < Dollars(widgets.K) /\ out.shown.payoff[i] = 0
    /\ \E i \in DOMAIN out.shown.S_range :
          out.shown.S_range[i] > Dollars(widgets.K) /\ out.shown.payoff[i] > 0

\* the reference payoff of an option type at price S and strike K (both in
\* 1/99 dollars); a binary option pays one dollar
ReferencePayoff(option_type, S, K) ==
    IF option_type = "Call" THEN (IF S > K THEN S - K ELSE 0)
    ELSE IF option_type = "Put" THEN (IF S < K THEN K - S ELSE 0)
    ELSE IF option_type = "Binary Call" THEN (IF S > K THEN Dollars(1) ELSE 0)
    ELSE (IF S < K THEN Dollars(1) ELSE 0)

C5_EveryRunCompletes == out.error = "none" /\ out.footer

\* the d1 statements of the factor branches, executed or not
FactorD1s ==
    UNION {LET stmts == FactorStatements(f)
           IN  {stmts[k].e : k \in {j \in DOMAIN stmts : stmts[j].op = "d1"}} :
           f \in Factors}

\* the d1 statements of the factor shown, executed or not
ShownD1s ==
    IF OnPage("option-payoffs-app", "Factors Affecting Price")
    THEN LET stmts == FactorStatements(widgets.factor)
         IN  {stmts[k].e : k \in {j \in DOMAIN stmts : stmts[j].op = "d1"}}
    ELSE {}

\* a run that meets a time to expiry of zero: the time decay loop of the
\* Time to Expiry factor iterates over T == 0, and the time_to_expiry slider
\* of options-EN can be set to 0.0
ZeroTimeInput ==
    \/ /\ OnPage("option-payoffs-app", "Factors Affecting Price")
       /\ widgets.factor = "Time to Expiry"
       /\ \E i \in DOMAIN years : years[i] = 0
    \/ /\ OnPage("options-EN", "Put-Call Parity")
       /\ out.shown.discount.time_to_expiry = 0

\* C6 as claimed: a time to expiry of zero is unguarded, so a run that meets
\* T == 0 has a d1 evaluation with T == 0 (dividing by vol*sqrt(T) == 0).
C6_ZeroTimeReachesD1 ==
    ZeroTimeInput =>
        \/ \E k \in DOMAIN out.evals : out.evals[k].T = 0
        \/ \E e \in ShownD1s : e.T = 0

\* C6 as amended: no d1 evaluation divides by vol*sqrt(T) == 0: every d1 a
\* run evaluates, and every d1 statement of the factor branches, has T > 0
\* and vol > 0.
C6_NoZeroTimeD1 ==
    /\ \A k \in DOMAIN out.evals : out.evals[k].T > 0 /\ out.evals[k].vol > 0
    /\ \A e \in FactorD1s : e.T > 0 /\ e.vol > 0

\* C6 witness: the Put-Call Parity page of option-payoffs-app with its T
\* slider at its minimum: d1 is evaluated with the least T a widget gives.
C6_Witness ==
    /\ OnPage("option-payoffs-app", "Put-Call Parity")
    /\ widgets.T = 1
    /\ Len(out.evals) = 1 /\ out.evals[1].T = TUnit \div 10

\* C7: in every pricing evaluation of either script the volatility is
\* strictly positive and the time to expiry is non-negative.
C7_PricingDomain ==
    /\ \A k \in DOMAIN out.evals : out.evals[k].vol > 0 /\ out.evals[k].T >= 0
    /\ \A e \in FactorD1s : e.vol > 0 /\ e.T >= 0
    /\ OnPage("options-EN", "Put-Call Parity") =>
          out.shown.discount.time_to_expiry >= 0

\* C7 witness: options-EN discounts the strike over a time to expiry of
\* exactly zero, the boundary of the domain.
C7_Witness ==
    /\ OnPage("options-EN", "Put-Call Parity")
    /\ widgets.time_to_expiry = 0
    /\ out.shown.discount.time_to_expiry = 0

Letter ==
    [c \in {UpperCase[k] : k \in DOMAIN UpperCase}
           \cup {LowerCase[k] : k \in DOMAIN LowerCase} |->
        CHOOSE k \in DOMAIN UpperCase : UpperCase[k] = c \/ LowerCase[k] = c]

\* the same character up to case
SameLetter(a, b) ==
    \/ a = b
    \/ a \in DOMAIN Letter /\ b \in DOMAIN Letter /\ Letter[a] = Letter[b]

\* text holds term as a substring, case ignored
ContainsIgnoringCase(text, term) ==
    \E k \in 0..(Len(text) - Len(term)) :
        \A j \in 1..Len(term) : SameLetter(text[k + j], term[j])

\* the places in the glossary of the entries that match term
Matching(term) ==
    {i \in DOMAIN glossary :
        \/ ContainsIgnoringCase(glossary[i][1], term)
        \/ ContainsIgnoringCase(glossary[i][2], term)}

\* C9: with a non-empty search term the entries displayed are exactly the
\* glossary entries whose term or definition contains the search term as a
\* case-insensitive substring, in glossary order; with an empty search term
\* the whole glossary is displayed.
C9_GlossarySearch ==
    OnPage("options-EN", "Glossary") =>
        LET shown == out.shown.filtered_glossary
            hits == IF widgets.search_term = <<>> THEN DOMAIN glossary
                    ELSE Matching(widgets.search_term)
        IN  /\ Len(shown) = Cardinality(hits)
            /\ \A k \in DOMAIN shown :
                  \E i \in hits :
                      /\ Cardinality({j \in hits : j < i}) = k - 1
                      /\ shown[k] = glossary[i]

\* C9 witness: a search term that matches some entries and not others, and
\* one displayed entry holds it only with another case.
C9_Witness ==
    /\ OnPage("options-EN", "Glossary")
    /\ widgets.search_term # <<>>
    /\ Len(out.shown.filtered_glossary) \in 1..(Len(glossary) - 1)
    /\ \E k \in DOMAIN out.shown.filtered_glossary :
          LET e == out.shown.filtered_glossary[k]
          IN  ~In(widgets.search_term, e[1]) /\ ~In(widgets.search_term, e[2])

\* C10: the Straddle payoff equals |S - K| at every grid price, for every
\* strike of the strike slider, in both scripts.
C10_StraddleAbs ==
    /\ OnStrategy("option-payoffs-app", "Straddle") =>
          \A i \in DOMAIN out.shown.S_range :
              out.shown.payoff[i] = Abs(out.shown.S_range[i] - Dollars(widgets.K))
    /\ OnStrategy("options-EN", "Straddle") =>
          \A i \in DOMAIN out.shown.stock_prices :
              out.shown.payoffs[i]
                 = Abs(out.shown.stock_prices[i] - widgets.center_strike)

\* C10 witness: a Straddle of options-EN whose strike was moved: the payoff
\* is zero at the strike, and positive below and above it.
C10_Witness ==
    /\ OnStrategy("options-EN", "Straddle")
    /\ widgets.center_strike # 100
    /\ \E i \in DOMAIN out.shown.stock_prices :
          /\ out.shown.stock_prices[i] < widgets.center_strike
          /\ out.shown.payoffs[i] > 0
    /\ \E i \in DOMAIN out.shown.stock_prices :
          /\ out.shown.stock_prices[i] = widgets.center_strike
          /\ out.shown.payoffs[i] = 0
    /\ \E i \in DOMAIN out.shown.stock_prices :
          /\ out.shown.stock_prices[i] > widgets.center_strike
          /\ out.shown.payoffs[i] > 0

\* the payoff array of a spread lies in [0, width]; it is width wherever
\* AtMax holds of the price and 0 wherever AtZero holds
SpreadShape(S, payoff, width, AtMax(_), AtZero(_)) ==
    \A i \in DOMAIN S :
        /\ 0 <= payoff[i] /\ payoff[i] <= width
        /\ AtMax(S[i]) => payoff[i] = width
        /\ AtZero(S[i]) => payoff[i] = 0

\* C11: the Bull Spread payoff max(S-K1,0) - max(S-K2,0) lies in [0, K2-K1],
\* equals the stated Maximum Profit K2-K1 wherever S >= K2 and is 0 wherever
\* S <= K1, for every strike pair of the sliders, in both scripts.
C11_BullSpread ==
    /\ OnStrategy("option-payoffs-app", "Bull Spread") =>
          /\ widgets.K1 <= widgets.K2
          /\ out.shown.max_profit = widgets.K2 - widgets.K1
          /\ LET AtMax(S) == S >= Dollars(widgets.K2)
                 AtZero(S) == S <= Dollars(widgets.K1)
             IN  SpreadShape(out.shown.S_range, out.shown.payoff,
                             Dollars(out.shown.max_profit), AtMax, AtZero)
    /\ OnStrategy("options-EN", "Bull Spread") =>
          /\ widgets.lower_strike <= widgets.upper_strike
          /\ out.shown.max_profit = widgets.upper_strike - widgets.lower_strike
          /\ LET AtMax(S) == S >= widgets.upper_strike
                 AtZero(S) == S <= widgets.lower_strike
             IN  SpreadShape(out.shown.stock_prices, out.shown.payoffs,
                             out.shown.max_profit, AtMax, AtZero)

\* C11 witness: a Bull Spread of option-payoffs-app whose lower strike was
\* moved: the payoff is 0 at some grid price, strictly between 0 and the
\* maximum profit at another, and the maximum profit at a third.
C11_Witness ==
    /\ OnStrategy("option-payoffs-app", "Bull Spread")
    /\ widgets.K1 # 90 /\ widgets.K1 < widgets.K2
    /\ \E i \in DOMAIN out.shown.S_range : out.shown.payoff[i] = 0
    /\ \E i \in DOMAIN out.shown.S_range :
          0 < out.shown.payoff[i] /\ out.shown.payoff[i] < Dollars(out.shown.max_profit)
    /\ \E i \in DOMAIN out.shown.S_range :
          out.shown.payoff[i] = Dollars(out.shown.max_profit)

\* C12: the Bear Spread payoff max(K2-S,0) - max(K1-S,0) lies in [0, K2-K1],
\* equals the stated Maximum Profit K2-K1 wherever S <= K1 and is 0 wherever
\* S >= K2, for every strike pair of the sliders, in both scripts.
C12_BearSpread ==
    /\ OnStrategy("option-payoffs-app", "Bear Spread") =>
          /\ widgets.K1 <= widgets.K2
          /\ out.shown.max_profit = widgets.K2 - widgets.K1
          /\ LET AtMax(S) == S <= Dollars(widgets.K1)
                 AtZero(S) == S >= Dollars(widgets.K2)
             IN  SpreadShape(out.shown.S_range, out.shown.payoff,
                             Dollars(out.shown.max_profit), AtMax, AtZero)
    /\ OnStrategy("options-EN", "Bear Spread") =>
          /\ widgets.lower_strike <= widgets.upper_strike
          /\ out.shown.max_profit = widgets.upper_strike - widgets.lower_strike
          /\ LET AtMax(S) == S <= widgets.lower_strike
                 AtZero(S) == S >= widgets.upper_strike
             IN  SpreadShape(out.shown.stock_prices, out.shown.payoffs,
                             out.shown.max_profit, AtMax, AtZero)

\* C12 witness: a Bear Spread of options-EN whose upper strike was moved:
\* the payoff is the maximum profit at some price, strictly between at
\* another, and 0 at a third.
C12_Witness ==
    /\ OnStrategy("options-EN", "Bear Spread")
    /\ widgets.upper_strike # 110 /\ widgets.lower_strike < widgets.upper_strike
    /\ \E i \in DOMAIN out.shown.stock_prices :
          out.shown.payoffs[i] = out.shown.max_profit
    /\ \E i \in DOMAIN out.shown.stock_prices :
          0 < out.shown.payoffs[i] /\ out.shown.payoffs[i] < out.shown.max_profit
    /\ \E i \in DOMAIN out.shown.stock_prices : out.shown.payoffs[i] = 0

\* C13: the Butterfly Spread payoff never exceeds K2-K1 and equals K2-K1 at
\* S == K2, for every strike triple of the sliders; in options-EN the
\* maximum is the wing width 10, at the centre strike.
C13_ButterflyMaxProfit ==
    /\ OnStrategy("option-payoffs-app", "Butterfly Spread") =>
          LET K1 == Dollars(widgets.K1)
              K2 == Dollars(widgets.K2)
              K3 == Dollars(widgets.K3)
          IN  /\ out.shown.max_profit = widgets.K2 - widgets.K1
              /\ \A i \in DOMAIN out.shown.S_range :
                    /\ out.shown.payoff[i] <= K2 - K1
                    /\ out.shown.S_range[i] = K2 => out.shown.payoff[i] = K2 - K1
              /\ butterfly_payoff(<<K2>>, K1, K2, K3) = <<K2 - K1>>
    /\ OnStrategy("options-EN", "Butterfly Spread") =>
          /\ out.shown.max_profit = 10
          /\ \A i \in DOMAIN out.shown.stock_prices :
                /\ out.shown.payoffs[i] <= out.shown.max_profit
                /\ out.shown.stock_prices[i] = widgets.center_strike
                      => out.shown.payoffs[i] = out.shown.max_profit

\* C13 witness: a Butterfly Spread of options-EN whose centre strike was
\* moved: the centre strike is a grid price, where the payoff is the wing
\* width, and the payoff is lower at another grid price.
C13_Witness ==
    /\ OnStrategy("options-EN", "Butterfly Spread")
    /\ widgets.center_strike # 100
    /\ \E i \in DOMAIN out.shown.stock_prices :
          /\ out.shown.stock_prices[i] = widgets.center_strike
          /\ out.shown.payoffs[i] = 10
    /\ \E i \in DOMAIN out.shown.stock_prices :
          0 < out.shown.payoffs[i] /\ out.shown.payoffs[i] < 10

\* C14: on the Butterfly Spread page of option-payoffs-app the payoff at
\* expiry is never negative, for every strike triple of the sliders and
\* every grid price.
C14_ButterflyNeverNegative ==
    OnStrategy("option-payoffs-app", "Butterfly Spread") =>
        \A i \in DOMAIN out.shown.S_range : out.shown.payoff[i] >= 0

\* C15: a binary call pays its fixed payout of 1 wherever the price reaches
\* or exceeds the strike (S >= K, S == K included) and 0 wherever S < K.
C15_BinaryCallPaysAtStrike ==
    (OnPage("option-payoffs-app", "Basic Options")
     /\ widgets.option_type = "Binary Call") =>
        \A i \in DOMAIN out.shown.S_range :
            out.shown.payoff[i] =
                IF out.shown.S_range[i] >= Dollars(widgets.K)
                THEN Dollars(1) ELSE 0

\* C16: in the value summary of the Basic Options page the three rows add
\* up: Intrinsic Value + Time Value == Total Premium.
C16_TimeValueIdentity ==
    OnPage("option-payoffs-app", "Basic Options") =>
        out.shown.current_intrinsic + out.shown.time_value = out.shown.premium

\* C17: the Basic Options page shows exactly one status: for Call and
\* Binary Call it is In-the-money iff S0 > K, Out-of-the-money iff S0 < K
\* and At-the-money iff S0 == K, for Put and Binary Put the reverse; the
\* status is In-the-money exactly when the intrinsic value shown is positive.
C17_Moneyness ==
    OnPage("option-payoffs-app", "Basic Options") =>
        LET S0 == widgets.S0
            K == widgets.K
            call == widgets.option_type \in {"Call", "Binary Call"}
            above == IF call THEN S0 > K ELSE S0 < K
            below == IF call THEN S0 < K ELSE S0 > K
        IN  /\ out.shown.status
                  \in {"In-the-money", "Out-of-the-money", "At-the-money"}
            /\ out.shown.status = "In-the-money" <=> above
            /\ out.shown.status = "Out-of-the-money" <=> below
            /\ out.shown.status = "At-the-money" <=> S0 = K
            /\ out.shown.status = "In-the-money" <=> out.shown.current_intrinsic > 0

\* C17 witness: a put whose current price was moved below its strike is
\* in the money, with a positive intrinsic value.
C17_Witness ==
    /\ OnPage("option-payoffs-app", "Basic Options")
    /\ widgets.option_type = "Put"
    /\ widgets.S0 < widgets.K
    /\ out.shown.status = "In-the-money"
    /\ out.shown.current_intrinsic > 0

\* C18: for a long single option the profit at every grid price is the
\* payoff at that price minus the premium: max(S-E,0) - Premium for a call
\* and max(E-S,0) - Premium for a put (options-EN Long Call and Long Put;
\* option-payoffs-app Call, Put, Binary Call and Binary Put).
C18_LongProfit ==
    /\ OnPage("option-payoffs-app", "Basic Options") =>
          \A i \in DOMAIN out.shown.S_range :
              LET S == out.shown.S_range[i]
                  K == Dollars(widgets.K)
                  Premium == Dollars(widgets.premium)
              IN  /\ out.shown.profit[i] = out.shown.payoff[i] - Premium
                  /\ widgets.option_type = "Call" =>
                        out.shown.profit[i]
                           = (IF S - K >= 0 THEN S - K ELSE 0) - Premium
                  /\ widgets.option_type = "Put" =>
                        out.shown.profit[i]
                           = (IF K - S >= 0 THEN K - S ELSE 0) - Premium
    /\ (OnPage("options-EN", "Option Payoffs") /\ widgets.position = "Long") =>
          \A i \in DOMAIN out.shown.stock_prices :
              LET S == out.shown.stock_prices[i]
                  E == widgets.strike_price
                  Premium == widgets.premium
              IN  /\ out.shown.profits[i] = out.shown.payoffs[i] - Premium
                  /\ widgets.option_type = "Call" =>
                        out.shown.profits[i]
                           = (IF S - E >= 0 THEN S - E ELSE 0) - Premium
                  /\ widgets.option_type = "Put" =>
                        out.shown.profits[i]
                           = (IF E - S >= 0 THEN E - S ELSE 0) - Premium

\* C18 witness: a Long Put of options-EN whose premium was moved: the
\* profit is a loss of the premium at some grid price and a gain at another.
C18_Witness ==
    /\ OnPage("options-EN", "Option Payoffs")
    /\ widgets.position = "Long" /\ widgets.option_type = "Put"
    /\ widgets.premium # 10
    /\ \E i \in DOMAIN out.shown.stock_prices :
          out.shown.profits[i] = -widgets.premium
    /\ \E i \in DOMAIN out.shown.stock_prices : out.shown.profits[i] > 0

\* C19: log of a non-positive price is unreachable: in every Black-Scholes
\* evaluation of option-payoffs-app (those a run executes and every d1
\* statement of the factor branches) every asset price and every strike is
\* strictly positive, so S/K is positive and K is never zero.
C19_LogArgumentPositive ==
    /\ App => \A k \in DOMAIN out.evals :
                 /\ \A i \in DOMAIN out.evals[k].S : out.evals[k].S[i] > 0
                 /\ \A j \in DOMAIN out.evals[k].K : out.evals[k].K[j] > 0
    /\ \A e \in FactorD1s :
          /\ \A i \in DOMAIN e.S : e.S[i] > 0
          /\ \A j \in DOMAIN e.K : e.K[j] > 0

\* C19 witness: the Put-Call Parity page of option-payoffs-app with the
\* asset price slider at its minimum: d1 is evaluated with the least price
\* a widget gives.
C19_Witness ==
    /\ OnPage("option-payoffs-app", "Put-Call Parity")
    /\ widgets.S0 = 50
    /\ Len(out.evals) = 1
    /\ out.evals[1].S = <<Dollars(50)>>
    /\ out.evals[1].K = <<Dollars(widgets.K)>>

====
